---- MODULE Spec2Model ----
(***************************************************************************)
(* A model of the diagnostic scripts of opinion-js-sdk:                    *)
(*   - compare_requests.py: camel_to_snake and the three passes that diff  *)
(*     the mappings `first` and `second` (Spec, SpecSnake);                *)
(*   - test_sdk.py: the basic smoke-test runner main() (SpecRunner).       *)
(* A Python str is a sequence of characters; a character is written as a   *)
(* one-character TLA+ string, or as "Uxxxx" for a non-ASCII code point.    *)
(***************************************************************************)
EXTENDS Integers, Sequences, FiniteSets, TLC

VARIABLES
    \* compare_requests.py, module globals
    first, second, first_keys, second_keys, second_to_camel,
    marks, differences, same_fields, raised, pc, it,
    \* calls of camel_to_snake
    name, returned,
    \* test_sdk.py, main()
    rpc, environ, missing_vars, import_ok, client, markets, market_detail,
    calls, ret,
    \* test_sdk_advanced.py, main()
    results, apc, adv_environ, adv_client, adv_markets, adv_calls, stdout,
    saved, adv_ret

compareVars == <<first, second, first_keys, second_keys, second_to_camel,
                 marks, differences, same_fields, raised, pc, it>>
snakeVars == <<name, returned>>
runnerVars == <<rpc, environ, missing_vars, import_ok, client, markets,
                market_detail, calls, ret>>
advancedVars == <<results, apc, adv_environ, adv_client, adv_markets,
                  adv_calls, stdout, saved, adv_ret>>
vars == <<compareVars, snakeVars, runnerVars, advancedVars>>

None == "None"

-----------------------------------------------------------------------------
(* Characters: str.isupper, str.lower and code point order                 *)

UpperLetters == <<"A","B","C","D","E","F","G","H","I","J","K","L","M",
                  "N","O","P","Q","R","S","T","U","V","W","X","Y","Z">>
LowerLetters == <<"a","b","c","d","e","f","g","h","i","j","k","l","m",
                  "n","o","p","q","r","s","t","u","v","w","x","y","z">>
Digits == <<"0","1","2","3","4","5","6","7","8","9">>

\* U+0130 LATIN CAPITAL LETTER I WITH DOT ABOVE: upper-case, lower() is the
\*        two characters "i" U+0307
\* U+01C5 LATIN CAPITAL LETTER D WITH SMALL LETTER Z WITH CARON: title-case,
\*        isupper() is False, lower() is U+01C6
\* U+03D2 GREEK UPSILON WITH HOOK SYMBOL: upper-case, lower() is itself
\* All characters in ascending code point order.
CharOrder == Digits \o UpperLetters \o <<"_">> \o LowerLetters
             \o <<"U0130", "U01C5", "U01C6", "U0307", "U03D2">>

Range(s) == {s[i] : i \in DOMAIN s}
IndexOf(s, c) == CHOOSE i \in DOMAIN s : s[i] = c

\* c.isupper() for a single character c
IsUpper(c) == c \in Range(UpperLetters) \cup {"U0130", "U03D2"}

\* c.lower() for a single character c: a str of one or two characters
Lower(c) ==
    IF c \in Range(UpperLetters) THEN <<LowerLetters[IndexOf(UpperLetters, c)]>>
    ELSE IF c = "U0130" THEN <<"i", "U0307">>
    ELSE IF c = "U01C5" THEN <<"U01C6">>
    ELSE <<c>>

\* s.lower() for a str s
RECURSIVE StrLower(_)
StrLower(s) == IF s = <<>> THEN <<>> ELSE Lower(Head(s)) \o StrLower(Tail(s))

\* ''.join(parts) for a list of str
RECURSIVE Join(_)
Join(parts) == IF parts = <<>> THEN <<>> ELSE Head(parts) \o Join(Tail(parts))

-----------------------------------------------------------------------------
(* camel_to_snake, compare_requests.py lines 33-42                         *)

\* The test `i > 0` left out.
SnakeAppendNoIndexTest(result, i, c) ==
    IF IsUpper(c)
    THEN result \o <<(<<"_">>), Lower(c)>>
    ELSE Append(result, Lower(c))

\* c appended in place of c.lower() after the underscore.
SnakeAppendKeepCase(result, i, c) ==
    IF IsUpper(c) /\ i > 0
    THEN result \o <<(<<"_">>), <<c>> >>
    ELSE Append(result, Lower(c))

\* The body of `for i, c in enumerate(name)`: what one character appends to
\* result (i is the 0-based index).
SnakeAppend(result, i, c) ==
    IF IsUpper(c) /\ i > 0
    THEN result \o <<(<<"_">>), Lower(c)>>
    ELSE Append(result, Lower(c))

RECURSIVE SnakeLoop(_, _, _)
SnakeLoop(nm, i, result) ==
    IF i >= Len(nm) THEN result
    ELSE SnakeLoop(nm, i + 1, SnakeAppend(result, i, nm[i + 1]))

\* '_'.join(result) in place of ''.join(result)
RECURSIVE JoinUnderscore(_)
JoinUnderscore(parts) ==
    IF Len(parts) <= 1 THEN Join(parts)
    ELSE Head(parts) \o <<"_">> \o JoinUnderscore(Tail(parts))

camel_to_snake_underscore_join(nm) == JoinUnderscore(SnakeLoop(nm, 0, <<>>))

camel_to_snake(nm) == Join(SnakeLoop(nm, 0, <<>>))

-----------------------------------------------------------------------------
(* Values and mappings                                                     *)

\* A value of a mapping is a str or an int.
StrVal(s) == [t |-> "str", v |-> s]
IntVal(n) == [t |-> "int", v |-> <<n>>]

RECURSIVE NatToStr(_)
NatToStr(n) ==
    IF n < 10 THEN <<Digits[n + 1]>>
    ELSE Append(NatToStr(n \div 10), Digits[(n % 10) + 1])

\* str(x) for a str or an int
PyStr(x) ==
    IF x.t = "str" THEN x.v
    ELSE IF x.v[1] < 0 THEN <<"-">> \o NatToStr(-x.v[1])
    ELSE NatToStr(x.v[1])

\* A dict is kept as the sequence of its <<key, value>> items, in insertion
\* order, with distinct keys.
DictKeys(d) == [i \in DOMAIN d |-> d[i][1]]
KeySet(d) == {d[i][1] : i \in DOMAIN d}
In(k, d) == \E i \in DOMAIN d : d[i][1] = k
GetItem(d, k) == d[CHOOSE i \in DOMAIN d : d[i][1] = k][2]

\* a < b for two str: code point order, a proper prefix first
RECURSIVE StrLess(_, _)
StrLess(a, b) ==
    IF b = <<>> THEN FALSE
    ELSE IF a = <<>> THEN TRUE
    ELSE IF Head(a) = Head(b) THEN StrLess(Tail(a), Tail(b))
    ELSE IndexOf(CharOrder, Head(a)) < IndexOf(CharOrder, Head(b))

RECURSIVE SortInsert(_, _)
SortInsert(k, s) ==
    IF s = <<>> THEN <<k>>
    ELSE IF StrLess(k, Head(s)) THEN <<k>> \o s
    ELSE <<Head(s)>> \o SortInsert(k, Tail(s))

\* sorted(keys) for a list of distinct str
RECURSIVE Sorted(_)
Sorted(keys) ==
    IF keys = <<>> THEN <<>> ELSE SortInsert(Head(keys), Sorted(Tail(keys)))

-----------------------------------------------------------------------------
(* compare_requests.py: the passes over `first`                            *)

\* The module globals the loop bodies read and write.
Globals == [first |-> first, second |-> second, marks |-> marks,
            differences |-> differences, same_fields |-> same_fields,
            raised |-> raised]

\* has_in_second also true for a key found verbatim in second_keys.
mapping_body_verbatim_or_snake(g, skeys, fk) ==
    LET snake_key == camel_to_snake(fk)
        has_in_second == snake_key \in skeys \/ fk \in skeys
    IN  [g EXCEPT !.marks = Append(@, <<has_in_second, fk, snake_key>>)]

\* Lines 62-65: one iteration of `for fk in sorted(first.keys())`; the
\* printed line is kept as <<has_in_second, fk, snake>>.
mapping_body(g, skeys, fk) ==
    LET snake_key == camel_to_snake(fk)
        has_in_second == snake_key \in skeys
    IN  [g EXCEPT !.marks = Append(@, <<has_in_second, fk, snake_key>>)]

\* d[k] = v for a key k of d
SetItem(d, k, v) == [i \in DOMAIN d |-> IF d[i][1] = k THEN <<k, v>> ELSE d[i]]

\* Only first_val lower-cased.
differences_compare_lower_first_only(g, first_key, snake_key) ==
    IF ~In(first_key, g.first) \/ ~In(snake_key, g.second)
    THEN [g EXCEPT !.raised = "KeyError"]
    ELSE LET first_val == StrLower(PyStr(GetItem(g.first, first_key)))
             second_val == PyStr(GetItem(g.second, snake_key))
         IN  IF first_val # second_val
             THEN [g EXCEPT !.differences =
                       Append(@, <<first_key, snake_key,
                                   GetItem(g.first, first_key),
                                   GetItem(g.second, snake_key)>>)]
             ELSE g

\* The compared strings recorded in place of the raw values.
differences_compare_store_lowered(g, first_key, snake_key) ==
    IF ~In(first_key, g.first) \/ ~In(snake_key, g.second)
    THEN [g EXCEPT !.raised = "KeyError"]
    ELSE LET first_val == StrLower(PyStr(GetItem(g.first, first_key)))
             second_val == StrLower(PyStr(GetItem(g.second, snake_key)))
         IN  IF first_val # second_val
             THEN [g EXCEPT !.differences =
                       Append(@, <<first_key, snake_key,
                                   StrVal(first_val), StrVal(second_val)>>)]
             ELSE g

\* Lines 74-77: the subscripts first[first_key] and second[snake_key] raise
\* KeyError on a missing key.
differences_compare(g, first_key, snake_key) ==
    IF ~In(first_key, g.first) \/ ~In(snake_key, g.second)
    THEN [g EXCEPT !.raised = "KeyError"]
    ELSE LET first_val == StrLower(PyStr(GetItem(g.first, first_key)))
             second_val == StrLower(PyStr(GetItem(g.second, snake_key)))
         IN  IF first_val # second_val
             THEN [g EXCEPT !.differences =
                       Append(@, <<first_key, snake_key,
                                   GetItem(g.first, first_key),
                                   GetItem(g.second, snake_key)>>)]
             ELSE g

\* The test `snake_key in second` left out.
differences_body_no_guard(g, first_key) ==
    differences_compare(g, first_key, camel_to_snake(first_key))

\* Lines 72-77: one iteration of the first `for first_key in first.keys()`.
differences_body(g, first_key) ==
    LET snake_key == camel_to_snake(first_key)
    IN  IF In(snake_key, g.second)
        THEN differences_compare(g, first_key, snake_key)
        ELSE g

\* The values compared without .lower().
same_fields_compare_no_lower(g, first_key, snake_key) ==
    IF ~In(first_key, g.first) \/ ~In(snake_key, g.second)
    THEN [g EXCEPT !.raised = "KeyError"]
    ELSE LET first_val == PyStr(GetItem(g.first, first_key))
             second_val == PyStr(GetItem(g.second, snake_key))
         IN  IF first_val = second_val
             THEN [g EXCEPT !.same_fields = Append(@, first_key)]
             ELSE g

\* first[first_key] normalised in place.
same_fields_compare_in_place(g, first_key, snake_key) ==
    IF ~In(first_key, g.first) \/ ~In(snake_key, g.second)
    THEN [g EXCEPT !.raised = "KeyError"]
    ELSE LET first_val == StrLower(PyStr(GetItem(g.first, first_key)))
             second_val == StrLower(PyStr(GetItem(g.second, snake_key)))
             h == [g EXCEPT !.first = SetItem(@, first_key, StrVal(first_val))]
         IN  IF first_val = second_val
             THEN [h EXCEPT !.same_fields = Append(@, first_key)]
             ELSE h

\* Lines 111-114.
same_fields_compare(g, first_key, snake_key) ==
    IF ~In(first_key, g.first) \/ ~In(snake_key, g.second)
    THEN [g EXCEPT !.raised = "KeyError"]
    ELSE LET first_val == StrLower(PyStr(GetItem(g.first, first_key)))
             second_val == StrLower(PyStr(GetItem(g.second, snake_key)))
         IN  IF first_val = second_val
             THEN [g EXCEPT !.same_fields = Append(@, first_key)]
             ELSE g

\* The key looked up verbatim: `first_key in second`.
same_fields_body_verbatim_key(g, first_key) ==
    IF In(first_key, g.second)
    THEN same_fields_compare(g, first_key, first_key)
    ELSE g

\* Lines 109-114: one iteration of the second `for first_key in first.keys()`.
same_fields_body(g, first_key) ==
    LET snake_key == camel_to_snake(first_key)
    IN  IF In(snake_key, g.second)
        THEN same_fields_compare(g, first_key, snake_key)
        ELSE g

\* The globals after a loop body; an exception ends the script.
Store(g, next_pc, rest) ==
    /\ first' = g.first
    /\ second' = g.second
    /\ marks' = g.marks
    /\ differences' = g.differences
    /\ same_fields' = g.same_fields
    /\ raised' = g.raised
    /\ IF g.raised # None
       THEN pc' = "error" /\ it' = <<>>
       ELSE pc' = next_pc /\ it' = rest

\* Lines 56-59, and the iterator of the loop of line 61.
KeySets ==
    /\ pc = "keys"
    /\ first_keys' = KeySet(first)
    /\ second_keys' = KeySet(second)
    /\ second_to_camel' = [i \in DOMAIN first |->
                              <<first[i][1], camel_to_snake(first[i][1])>>]
    /\ it' = Sorted(DictKeys(first))
    /\ pc' = "mapping"
    /\ UNCHANGED <<first, second, marks, differences, same_fields, raised>>

\* Lines 61-65.
MappingStep ==
    /\ pc = "mapping" /\ it # <<>>
    /\ Store(mapping_body(Globals, second_keys, Head(it)), "mapping", Tail(it))
    /\ UNCHANGED <<first_keys, second_keys, second_to_camel>>

\* Line 69, and the iterator of the loop of line 71.
MappingEnd ==
    /\ pc = "mapping" /\ it = <<>>
    /\ differences' = <<>>
    /\ it' = DictKeys(first)
    /\ pc' = "differences"
    /\ UNCHANGED <<first, second, first_keys, second_keys, second_to_camel,
                   marks, same_fields, raised>>

\* Lines 71-77.
DifferencesStep ==
    /\ pc = "differences" /\ it # <<>>
    /\ Store(differences_body(Globals, Head(it)), "differences", Tail(it))
    /\ UNCHANGED <<first_keys, second_keys, second_to_camel>>

\* Lines 79-107: the report of the differences (output only; lines 86-87
\* print two entries that the literal mappings hold), then line 107 and the
\* iterator of the loop of line 108.
Report ==
    /\ pc = "differences" /\ it = <<>>
    /\ same_fields' = <<>>
    /\ it' = DictKeys(first)
    /\ pc' = "same_fields"
    /\ UNCHANGED <<first, second, first_keys, second_keys, second_to_camel,
                   marks, differences, raised>>

\* Lines 108-114.
SameFieldsStep ==
    /\ pc = "same_fields" /\ it # <<>>
    /\ Store(same_fields_body(Globals, Head(it)), "same_fields", Tail(it))
    /\ UNCHANGED <<first_keys, second_keys, second_to_camel>>

\* Lines 116-118: the script ends.
SameFieldsEnd ==
    /\ pc = "same_fields" /\ it = <<>>
    /\ pc' = "done"
    /\ UNCHANGED <<first, second, first_keys, second_keys, second_to_camel,
                   marks, differences, same_fields, raised, it>>

\* The mappings that `first` and `second` are drawn from.
MaxKeys == 3

KeyUniverse == << <<"a", "_", "b">>, <<"a", "B">>, <<"U01C6">>, <<"U01C5">> >>

\* As in the literal mappings, `first` holds mixed-case hex strings and
\* digit strings, `second` lower-case hex strings and ints.
FirstValues == { StrVal(<<"0", "x", "A", "B", "C">>), StrVal(<<"1", "7", "0", "8">>) }
SecondValues == { StrVal(<<"0", "x", "a", "b", "c">>), IntVal(1708) }

\* The dicts of n items with distinct keys, in any insertion order.
DictsOfSize(n, values) ==
    UNION { { [i \in 1..n |-> <<KeyUniverse[ks[i]], vs[i]>>] :
                vs \in [1..n -> values] } :
            ks \in { f \in [1..n -> DOMAIN KeyUniverse] :
                       \A i, j \in 1..n : i # j => f[i] # f[j] } }

FirstDicts == UNION { DictsOfSize(n, FirstValues) : n \in 0..MaxKeys }

\* `second` is never iterated: one insertion order (that of KeyUniverse)
\* stands for all.
SecondDicts ==
    { d \in UNION { DictsOfSize(n, SecondValues) : n \in 0..MaxKeys } :
        \A i, j \in DOMAIN d :
            i < j => IndexOf(KeyUniverse, d[i][1]) < IndexOf(KeyUniverse, d[j][1]) }

CompareIdle ==
    /\ first = <<>> /\ second = <<>>
    /\ first_keys = {} /\ second_keys = {} /\ second_to_camel = <<>>
    /\ marks = <<>> /\ differences = <<>> /\ same_fields = <<>>
    /\ raised = None /\ pc = "idle" /\ it = <<>>
SnakeIdle == name = <<>> /\ returned = <<>>
RunnerIdle ==
    /\ rpc = "idle" /\ environ = {} /\ missing_vars = {} /\ import_ok = None
    /\ client = None /\ markets = None /\ market_detail = None
    /\ calls = <<>> /\ ret = <<>>

\* test_sdk_advanced.py lines 18-22: TestResult().
TestResult == [passed |-> 0, failed |-> 0, skipped |-> 0, results |-> <<>>]

AdvancedIdle ==
    /\ results = TestResult /\ apc = "idle"
    /\ adv_environ = {} /\ adv_client = None /\ adv_markets = None
    /\ adv_calls = <<>> /\ stdout = <<>> /\ saved = <<>> /\ adv_ret = <<>>

Init ==
    /\ first \in FirstDicts
    /\ second \in SecondDicts
    /\ first_keys = {} /\ second_keys = {} /\ second_to_camel = <<>>
    /\ marks = <<>> /\ differences = <<>> /\ same_fields = <<>>
    /\ raised = None /\ pc = "keys" /\ it = <<>>
    /\ SnakeIdle /\ RunnerIdle /\ AdvancedIdle

Next ==
    \/ KeySets /\ UNCHANGED <<snakeVars, runnerVars, advancedVars>>
    \/ MappingStep /\ UNCHANGED <<snakeVars, runnerVars, advancedVars>>
    \/ MappingEnd /\ UNCHANGED <<snakeVars, runnerVars, advancedVars>>
    \/ DifferencesStep /\ UNCHANGED <<snakeVars, runnerVars, advancedVars>>
    \/ Report /\ UNCHANGED <<snakeVars, runnerVars, advancedVars>>
    \/ SameFieldsStep /\ UNCHANGED <<snakeVars, runnerVars, advancedVars>>
    \/ SameFieldsEnd /\ UNCHANGED <<snakeVars, runnerVars, advancedVars>>

Spec == Init /\ [][Next]_vars

-----------------------------------------------------------------------------
(* The three passes run to the end on mappings A and B                     *)

EmptyGlobals(A, B) ==
    [first |-> A, second |-> B, marks |-> <<>>, differences |-> <<>>,
     same_fields |-> <<>>, raised |-> None]

RECURSIVE MappingLoop(_, _, _)
MappingLoop(g, skeys, keys) ==
    IF keys = <<>> \/ g.raised # None THEN g
    ELSE MappingLoop(mapping_body(g, skeys, Head(keys)), skeys, Tail(keys))

RECURSIVE DifferencesLoop(_, _)
DifferencesLoop(g, keys) ==
    IF keys = <<>> \/ g.raised # None THEN g
    ELSE DifferencesLoop(differences_body(g, Head(keys)), Tail(keys))

RECURSIVE SameFieldsLoop(_, _)
SameFieldsLoop(g, keys) ==
    IF keys = <<>> \/ g.raised # None THEN g
    ELSE SameFieldsLoop(same_fields_body(g, Head(keys)), Tail(keys))

\* The globals at the end of the script run with first = A and second = B.
RunScript(A, B) ==
    SameFieldsLoop(
        DifferencesLoop(
            MappingLoop(EmptyGlobals(A, B), KeySet(B), Sorted(DictKeys(A))),
            DictKeys(A)),
        DictKeys(A))

\* The three sets of keys a run reports.
UnmatchedOf(g) == {g.marks[i][2] : i \in {j \in DOMAIN g.marks : ~g.marks[j][1]}}
MismatchedOf(g) == {g.differences[i][1] : i \in DOMAIN g.differences}
MatchedOf(g) == Range(g.same_fields)

-----------------------------------------------------------------------------
(* One call of camel_to_snake on an arbitrary str                          *)

MaxLen == 3

Alphabet == {"a", "B", "_", "1", "U0130", "U01C5", "U03D2"}

\* Keys of the literal `first`, compare_requests.py lines 5-14.
contractAddress == <<"c","o","n","t","r","a","c","t","A","d","d","r","e","s","s">>
tradingMethod == <<"t","r","a","d","i","n","g","M","e","t","h","o","d">>
feeRateBps == <<"f","e","e","R","a","t","e","B","p","s">>
price == <<"p","r","i","c","e">>

SnakeInputs ==
    UNION { [1..n -> Alphabet] : n \in 0..MaxLen }
    \cup {contractAddress, tradingMethod, feeRateBps, price}

InitSnake ==
    /\ name \in SnakeInputs
    /\ returned = <<>>
    /\ CompareIdle /\ RunnerIdle /\ AdvancedIdle

\* The call camel_to_snake(name); returned holds the value it returned.
CallCamelToSnake ==
    /\ returned = <<>>
    /\ returned' = <<camel_to_snake(name)>>
    /\ UNCHANGED name

\* A second call, camel_to_snake(camel_to_snake(name)); its value is
\* appended to returned.
CallCamelToSnakeAgain ==
    /\ Len(returned) = 1
    /\ returned' = Append(returned, camel_to_snake(returned[1]))
    /\ UNCHANGED name

NextSnake ==
    \/ CallCamelToSnake /\ UNCHANGED <<compareVars, runnerVars, advancedVars>>
    \/ CallCamelToSnakeAgain /\ UNCHANGED <<compareVars, runnerVars, advancedVars>>

SpecSnake == InitSnake /\ [][NextSnake]_vars

\* The script, or one call of camel_to_snake.
InitAll == Init \/ InitSnake
NextAll == Next \/ (pc = "idle" /\ NextSnake)
SpecAll == InitAll /\ [][NextAll]_vars

-----------------------------------------------------------------------------
(* test_sdk.py: main() and the test functions it calls                     *)
(* The SDK is a black box: each call of it ends in one of the outcomes     *)
(* the test function tells apart. calls is the list of the SDK calls made  *)
(* so far; ret is <<>> until main returns and then holds its value.        *)

\* Line 191.
required_vars == {"API_KEY", "RPC_URL", "PRIVATE_KEY", "MULTI_SIG_ADDRESS",
                  "HOST", "CHAIN_ID"}

\* Lines 14-25: True, or False after an ImportError.
test_import(outcome) == IF outcome = "ok" THEN "True" ELSE "False"

\* Lines 27-49. "bad_chain_id": int(os.getenv('CHAIN_ID', 56)) raises
\* before Client is called.
test_client_initialization(cs, outcome) ==
    IF outcome = "bad_chain_id" THEN [calls |-> cs, value |-> None]
    ELSE IF outcome = "raise" THEN [calls |-> Append(cs, "Client"), value |-> None]
    ELSE [calls |-> Append(cs, "Client"), value |-> "client"]

\* Lines 51-84. "import_error": line 55 raises before the call;
\* "print_raise": an attribute read of lines 69-71 raises.
test_get_markets(cs, outcome) ==
    IF outcome = "import_error" THEN [calls |-> cs, value |-> None]
    ELSE [calls |-> Append(cs, "get_markets"),
          value |-> IF outcome = "list" THEN "[market]"
                    ELSE IF outcome = "empty" THEN "[]"
                    ELSE None]

\* Lines 86-108. "no_data": errno is 0 and an attribute read of lines
\* 95-99 raises.
test_get_market_detail(cs, outcome) ==
    [calls |-> Append(cs, "get_market"),
     value |-> IF outcome \in {"raise", "errno", "no_data"} THEN None
               ELSE IF outcome = "no_options_attr" THEN "market_no_options_attr"
               ELSE IF outcome = "empty_options" THEN "market_empty_options"
               ELSE "market_with_options"]

\* Lines 110-136. "bad_token_id": token_id[:20] of line 112, outside the
\* try, raises and the exception leaves main.
test_get_orderbook(cs, outcome) ==
    IF outcome = "bad_token_id" THEN [calls |-> cs, raises |-> TRUE]
    ELSE [calls |-> Append(cs, "get_orderbook"), raises |-> FALSE]

\* Lines 138-159.
test_get_balances(cs, outcome) == Append(cs, "get_my_balances")

\* Lines 161-182.
test_get_positions(cs, outcome) == Append(cs, "get_my_positions")

\* Lines 212-217 with the test of line 212 left out.
after_markets_no_return(ms) ==
    IF ms = "[market]" THEN "get_market" ELSE "get_balances"

\* Lines 212-217: where main goes after test_get_markets.
after_markets(ms) ==
    IF ms = None THEN "return 1"
    ELSE IF ms = "[market]" THEN "get_market"
    ELSE "get_balances"

\* Line 221: where main goes after test_get_market_detail.
after_market_detail(md) ==
    IF md = "market_with_options" THEN "get_orderbook" ELSE "get_balances"

Return(value) == rpc' = "returned" /\ ret' = <<value>>

\* Lines 190-199.
CheckEnv ==
    /\ rpc = "check_env"
    /\ missing_vars' = required_vars \ environ
    /\ IF missing_vars' # {} THEN Return(1) ELSE rpc' = "import" /\ ret' = ret
    /\ UNCHANGED <<environ, import_ok, client, markets, market_detail, calls>>

\* Lines 202-203.
TestImport ==
    /\ rpc = "import"
    /\ \E outcome \in {"ok", "import_error"} :
        /\ import_ok' = test_import(outcome)
        /\ IF import_ok' = "False" THEN Return(1)
           ELSE rpc' = "client_init" /\ ret' = ret
    /\ UNCHANGED <<environ, missing_vars, client, markets, market_detail, calls>>

\* Lines 206-208.
TestClientInitialization ==
    /\ rpc = "client_init"
    /\ \E outcome \in {"ok", "raise", "bad_chain_id"} :
        LET r == test_client_initialization(calls, outcome)
        IN  /\ calls' = r.calls
            /\ client' = r.value
            /\ IF r.value = None THEN Return(1)
               ELSE rpc' = "get_markets" /\ ret' = ret
    /\ UNCHANGED <<environ, missing_vars, import_ok, markets, market_detail>>

\* Lines 211-217.
TestGetMarkets ==
    /\ rpc = "get_markets"
    /\ \E outcome \in {"list", "empty", "errno", "raise", "import_error",
                       "print_raise"} :
        LET r == test_get_markets(calls, outcome)
        IN  /\ calls' = r.calls
            /\ markets' = r.value
            /\ IF after_markets(r.value) = "return 1" THEN Return(1)
               ELSE rpc' = after_markets(r.value) /\ ret' = ret
    /\ UNCHANGED <<environ, missing_vars, import_ok, client, market_detail>>

\* Lines 218-221.
TestGetMarketDetail ==
    /\ rpc = "get_market"
    /\ \E outcome \in {"options", "empty_options", "no_options_attr",
                       "no_data", "errno", "raise"} :
        LET r == test_get_market_detail(calls, outcome)
        IN  /\ calls' = r.calls
            /\ market_detail' = r.value
            /\ rpc' = after_market_detail(r.value)
    /\ UNCHANGED <<environ, missing_vars, import_ok, client, markets, ret>>

\* Line 222.
TestGetOrderbook ==
    /\ rpc = "get_orderbook"
    /\ \E outcome \in {"ok", "errno", "raise", "bad_token_id"} :
        LET r == test_get_orderbook(calls, outcome)
        IN  /\ calls' = r.calls
            /\ rpc' = IF r.raises THEN "raised" ELSE "get_balances"
    /\ UNCHANGED <<environ, missing_vars, import_ok, client, markets,
                   market_detail, ret>>

\* Line 225.
TestGetBalances ==
    /\ rpc = "get_balances"
    /\ \E outcome \in {"ok", "errno", "raise"} :
        calls' = test_get_balances(calls, outcome)
    /\ rpc' = "get_positions"
    /\ UNCHANGED <<environ, missing_vars, import_ok, client, markets,
                   market_detail, ret>>

\* Line 228.
TestGetPositions ==
    /\ rpc = "get_positions"
    /\ \E outcome \in {"ok", "errno", "raise"} :
        calls' = test_get_positions(calls, outcome)
    /\ rpc' = "completed"
    /\ UNCHANGED <<environ, missing_vars, import_ok, client, markets,
                   market_detail, ret>>

\* Lines 230-234.
Completed ==
    /\ rpc = "completed"
    /\ Return(0)
    /\ UNCHANGED <<environ, missing_vars, import_ok, client, markets,
                   market_detail, calls>>

\* The variables of required_vars that os.getenv finds set and non-empty.
InitRunner ==
    /\ rpc = "check_env"
    /\ environ \in SUBSET required_vars
    /\ missing_vars = {} /\ import_ok = None
    /\ client = None /\ markets = None /\ market_detail = None
    /\ calls = <<>> /\ ret = <<>>
    /\ CompareIdle /\ SnakeIdle /\ AdvancedIdle

NextRunner ==
    \/ CheckEnv /\ UNCHANGED <<compareVars, snakeVars, advancedVars>>
    \/ TestImport /\ UNCHANGED <<compareVars, snakeVars, advancedVars>>
    \/ TestClientInitialization /\ UNCHANGED <<compareVars, snakeVars, advancedVars>>
    \/ TestGetMarkets /\ UNCHANGED <<compareVars, snakeVars, advancedVars>>
    \/ TestGetMarketDetail /\ UNCHANGED <<compareVars, snakeVars, advancedVars>>
    \/ TestGetOrderbook /\ UNCHANGED <<compareVars, snakeVars, advancedVars>>
    \/ TestGetBalances /\ UNCHANGED <<compareVars, snakeVars, advancedVars>>
    \/ TestGetPositions /\ UNCHANGED <<compareVars, snakeVars, advancedVars>>
    \/ Completed /\ UNCHANGED <<compareVars, snakeVars, advancedVars>>

SpecRunner == InitRunner /\ [][NextRunner]_vars

-----------------------------------------------------------------------------
(* test_sdk_advanced.py: class TestResult                                  *)
(* A TestResult object is a record of its four attributes; a method is an  *)
(* operator from the object before the call to the object after it. The    *)
(* str values of this file are TLA+ strings.                               *)

\* self.skipped left as it was.
add_skip_no_count(self, test_name, reason) ==
    [self EXCEPT !.results = Append(@, [test |-> test_name, status |-> "SKIP",
                                        reason |-> reason])]

\* Lines 24-33.
add_pass(self, test_name, details) ==
    [self EXCEPT !.passed = @ + 1,
                 !.results = Append(@, [test |-> test_name, status |-> "PASS",
                                        details |-> details])]

\* Lines 35-43. error is a str here, and str(error) of a str is that str.
add_fail(self, test_name, error) ==
    [self EXCEPT !.failed = @ + 1,
                 !.results = Append(@, [test |-> test_name, status |-> "FAIL",
                                        error |-> error])]

\* Lines 45-52.
add_skip(self, test_name, reason) ==
    [self EXCEPT !.skipped = @ + 1,
                 !.results = Append(@, [test |-> test_name, status |-> "SKIP",
                                        reason |-> reason])]

\* Line 55, and line 299 of save_results.
total(self) == self.passed + self.failed + self.skipped

\* Lines 54-64: the value summary() returns.
summary(self) == self.failed = 0

\* Calls of the three methods on one object, at most MaxResults of them.
MaxResults == 3

TestNames == {"Get Balances", "Get Positions"}
Texts == {"", "timeout"}

AddPass ==
    /\ Len(results.results) < MaxResults
    /\ \E test_name \in TestNames, details \in Texts :
        results' = add_pass(results, test_name, details)

AddFail ==
    /\ Len(results.results) < MaxResults
    /\ \E test_name \in TestNames, error \in Texts :
        results' = add_fail(results, test_name, error)

AddSkip ==
    /\ Len(results.results) < MaxResults
    /\ \E test_name \in TestNames, reason \in Texts :
        results' = add_skip(results, test_name, reason)

TestResultRest == <<apc, adv_environ, adv_client, adv_markets, adv_calls,
                    stdout, saved, adv_ret>>

InitTestResult == CompareIdle /\ SnakeIdle /\ RunnerIdle /\ AdvancedIdle

NextTestResult ==
    \/ AddPass /\ UNCHANGED <<compareVars, snakeVars, runnerVars, TestResultRest>>
    \/ AddFail /\ UNCHANGED <<compareVars, snakeVars, runnerVars, TestResultRest>>
    \/ AddSkip /\ UNCHANGED <<compareVars, snakeVars, runnerVars, TestResultRest>>

SpecTestResult == InitTestResult /\ [][NextTestResult]_vars

-----------------------------------------------------------------------------
(* test_sdk_advanced.py: main() and the test functions it calls            *)
(* A test function is an operator from the TestResult object and the list  *)
(* of SDK calls made so far (and the outcome of the SDK calls it makes) to  *)
(* the object and the list after it, and the value it returns. An f-string  *)
(* with a value the model does not hold is written with <...> in its place. *)

\* Lines 76-85, in the order of the dict; env and missing are the f-strings
\* of lines 99 and 101 for the row, present the one of line 99.
advanced_required_vars == <<
    [var |-> "API_KEY", env |-> "ENV: API_KEY",
     present |-> "API authentication key: <display_value>",
     missing |-> "Missing: API authentication key"],
    [var |-> "RPC_URL", env |-> "ENV: RPC_URL",
     present |-> "Blockchain RPC endpoint: <display_value>",
     missing |-> "Missing: Blockchain RPC endpoint"],
    [var |-> "PRIVATE_KEY", env |-> "ENV: PRIVATE_KEY",
     present |-> "Wallet private key: <display_value>",
     missing |-> "Missing: Wallet private key"],
    [var |-> "MULTI_SIG_ADDRESS", env |-> "ENV: MULTI_SIG_ADDRESS",
     present |-> "Multi-signature wallet address: <display_value>",
     missing |-> "Missing: Multi-signature wallet address"],
    [var |-> "HOST", env |-> "ENV: HOST",
     present |-> "API host URL: <display_value>",
     missing |-> "Missing: API host URL"],
    [var |-> "CHAIN_ID", env |-> "ENV: CHAIN_ID",
     present |-> "Blockchain chain ID: <display_value>",
     missing |-> "Missing: Blockchain chain ID"],
    [var |-> "CONDITIONAL_TOKEN_ADDR", env |-> "ENV: CONDITIONAL_TOKEN_ADDR",
     present |-> "Conditional token contract address: <display_value>",
     missing |-> "Missing: Conditional token contract address"],
    [var |-> "MULTISEND_ADDR", env |-> "ENV: MULTISEND_ADDR",
     present |-> "Multisend contract address: <display_value>",
     missing |-> "Missing: Multisend contract address"] >>

\* Lines 88-102: the loop over the first n rows. env is the set of the
\* variables for which os.getenv returns a non-empty value.
RECURSIVE test_environment_loop(_, _, _)
test_environment_loop(rs, env, n) ==
    IF n = 0 THEN [results |-> rs, value |-> TRUE]
    ELSE LET before == test_environment_loop(rs, env, n - 1)
             row == advanced_required_vars[n]
         IN  IF row.var \in env
             THEN [results |-> add_pass(before.results, row.env, row.present),
                   value |-> before.value]
             ELSE [results |-> add_fail(before.results, row.env, row.missing),
                   value |-> FALSE]

\* Lines 72-104.
test_environment(rs, env) ==
    test_environment_loop(rs, env, Len(advanced_required_vars))

\* Lines 106-133. The outcome names the first import that raises ImportError.
test_sdk_import(rs, outcome) ==
    IF outcome = "no_client"
    THEN [results |-> add_fail(rs, "Import Client", "<str(e)>"),
          value |-> FALSE]
    ELSE LET r1 == add_pass(rs, "Import Client", "opinion_clob_sdk.Client")
         IN  IF outcome = "no_filter"
             THEN [results |-> add_fail(r1, "Import TopicStatusFilter", "<str(e)>"),
                   value |-> FALSE]
             ELSE LET r2 == add_pass(r1, "Import TopicStatusFilter",
                                     "opinion_clob_sdk.model.TopicStatusFilter")
                  IN  IF outcome = "no_order_types"
                      THEN [results |-> add_fail(r2, "Import Order Types", "<str(e)>"),
                            value |-> FALSE]
                      ELSE [results |-> add_pass(r2, "Import Order Types",
                                                 "Order-related classes imported"),
                            value |-> TRUE]

\* Lines 135-160. "import_error": line 140 raises; "bad_chain_id":
\* int(os.getenv('CHAIN_ID', 56)) raises before Client is called; "raise":
\* Client raises.
advanced_test_client_initialization(rs, cs, outcome) ==
    IF outcome = "ok"
    THEN [results |-> add_pass(rs, "Client Initialization",
                               "Host: <HOST>, Chain: <CHAIN_ID>"),
          calls |-> Append(cs, "Client"), value |-> "client"]
    ELSE [results |-> add_fail(rs, "Client Initialization", "<str(e)>"),
          calls |-> IF outcome = "raise" THEN Append(cs, "Client") ELSE cs,
          value |-> None]

\* Lines 162-197. "import_error": line 172 raises before the call;
\* "none_list": errno is 0 and response.result.list is None.
test_api_connection(cl, rs, cs, outcome) ==
    IF cl = None
    THEN [results |-> add_skip(rs, "API Connection", "Client not initialized"),
          calls |-> cs, value |-> "False"]
    ELSE IF outcome = "import_error"
    THEN [results |-> add_fail(rs, "Get Active Markets", "<str(e)>"),
          calls |-> cs, value |-> None]
    ELSE LET cs1 == Append(cs, "get_markets")
         IN  IF outcome = "list"
             THEN [results |-> add_pass(rs, "Get Active Markets", "Found 1 markets"),
                   calls |-> cs1, value |-> "[market]"]
             ELSE IF outcome = "empty"
             THEN [results |-> add_pass(rs, "Get Active Markets", "Found 0 markets"),
                   calls |-> cs1, value |-> "[]"]
             ELSE IF outcome = "none_list"
             THEN [results |-> add_pass(rs, "Get Active Markets", "Found 0 markets"),
                   calls |-> cs1, value |-> None]
             ELSE IF outcome = "403"
             THEN [results |-> add_fail(rs, "Get Active Markets",
                                        "403 Forbidden - Check API key validity"),
                   calls |-> cs1, value |-> None]
             ELSE IF outcome = "errno"
             THEN [results |-> add_fail(rs, "Get Active Markets",
                                        "Error <errno>: <errmsg>"),
                   calls |-> cs1, value |-> None]
             ELSE IF outcome = "raise_403"
             THEN [results |-> add_fail(rs, "Get Active Markets",
                       "403 Forbidden - API key may be invalid or expired"),
                   calls |-> cs1, value |-> None]
             ELSE [results |-> add_fail(rs, "Get Active Markets", "<str(e)>"),
                   calls |-> cs1, value |-> None]

\* Lines 219-233: the orderbook part. "bad_token": line 220 raises before
\* the call; "book_raise": the call or one of lines 223-226 raises.
test_market_operations_orderbook(rs, cs, outcome) ==
    IF outcome = "no_options"
    THEN [results |-> add_skip(rs, "Get Orderbook", "No tokens in market"),
          calls |-> cs]
    ELSE IF outcome = "bad_token"
    THEN [results |-> add_fail(rs, "Get Orderbook", "<str(e)>"), calls |-> cs]
    ELSE IF outcome = "book_ok"
    THEN [results |-> add_pass(rs, "Get Orderbook", "<bids_count> bids, <asks_count> asks"),
          calls |-> Append(cs, "get_orderbook")]
    ELSE IF outcome = "book_errno"
    THEN [results |-> add_fail(rs, "Get Orderbook", "<errmsg>"),
          calls |-> Append(cs, "get_orderbook")]
    ELSE [results |-> add_fail(rs, "Get Orderbook", "<str(e)>"),
          calls |-> Append(cs, "get_orderbook")]

\* Lines 199-238. "no_market_id": line 210 raises before the call;
\* "no_title": errno is 0 and line 214 or 215 raises before add_pass.
test_market_operations(cl, ms, rs, cs, outcome) ==
    IF ms \in {None, "False", "[]"}
    THEN [results |-> add_skip(add_skip(rs, "Market Detail", "No markets available"),
                               "Market Orderbook", "No markets available"),
          calls |-> cs]
    ELSE IF outcome = "no_market_id"
    THEN [results |-> add_fail(rs, "Market Operations", "<str(e)>"), calls |-> cs]
    ELSE LET cs1 == Append(cs, "get_market")
         IN  IF outcome \in {"raise", "no_title"}
             THEN [results |-> add_fail(rs, "Market Operations", "<str(e)>"),
                   calls |-> cs1]
             ELSE IF outcome = "errno"
             THEN [results |-> add_fail(rs, "Get Market Detail", "<errmsg>"),
                   calls |-> cs1]
             ELSE test_market_operations_orderbook(
                      add_pass(rs, "Get Market Detail", "Market #<market_id>: <marketTitle>"),
                      cs1, outcome)

\* Lines 248-257 and 259-268: one of the two calls of test_account_operations.
account_call(rs, cs, method, test_name, found, outcome) ==
    [results |-> IF outcome = "ok" THEN add_pass(rs, test_name, found)
                 ELSE IF outcome = "errno" THEN add_fail(rs, test_name, "<errmsg>")
                 ELSE add_fail(rs, test_name, "<str(e)>"),
     calls |-> Append(cs, method)]

\* Lines 240-268.
test_account_operations(cl, rs, cs, balances, positions) ==
    IF cl = None
    THEN [results |-> add_skip(rs, "Account Operations", "Client not initialized"),
          calls |-> cs]
    ELSE LET b == account_call(rs, cs, "get_my_balances", "Get Balances",
                               "Found <count> balance entries", balances)
         IN  account_call(b.results, b.calls, "get_my_positions", "Get Positions",
                          "Found <count> positions", positions)

\* The test of line 274 left out: the call is made on None and line 279
\* raises AttributeError inside the try.
test_quote_tokens_no_guard(cl, rs, cs, outcome) ==
    IF cl = None
    THEN [results |-> add_fail(rs, "Get Quote Tokens", "<str(e)>"), calls |-> cs]
    ELSE [results |-> add_pass(rs, "Get Quote Tokens", "Found <count> quote tokens"),
          calls |-> Append(cs, "get_quote_tokens")]

\* Lines 270-292. "print_raise": errno is 0 and line 288 raises after
\* add_pass, inside the try.
test_quote_tokens(cl, rs, cs, outcome) ==
    IF cl = None
    THEN [results |-> add_skip(rs, "Get Quote Tokens", "Client not initialized"),
          calls |-> cs]
    ELSE LET cs1 == Append(cs, "get_quote_tokens")
             found == add_pass(rs, "Get Quote Tokens", "Found <count> quote tokens")
         IN  IF outcome = "ok" THEN [results |-> found, calls |-> cs1]
             ELSE IF outcome = "print_raise"
             THEN [results |-> add_fail(found, "Get Quote Tokens", "<str(e)>"),
                   calls |-> cs1]
             ELSE IF outcome = "errno"
             THEN [results |-> add_fail(rs, "Get Quote Tokens", "<errmsg>"),
                   calls |-> cs1]
             ELSE [results |-> add_fail(rs, "Get Quote Tokens", "<str(e)>"),
                   calls |-> cs1]

\* Lines 296-305: the object json.dump writes, without its timestamp.
output(rs) ==
    [summary |-> [total |-> total(rs), passed |-> rs.passed,
                  failed |-> rs.failed, skipped |-> rs.skipped],
     tests |-> rs.results]

\* Lines 294-312: the file and the line printed. "write_error": open or
\* json.dump raises and the except of line 311 prints the failure.
save_results(rs, outcome) ==
    IF outcome = "written"
    THEN [file |-> <<output(rs)>>, printed |-> "Results saved"]
    ELSE [file |-> <<>>, printed |-> "Failed to save results"]

\* 0 only when there is neither a FAIL nor a SKIP entry.
exit_code_skips_fail(rs) == IF rs.failed = 0 /\ rs.skipped = 0 THEN 0 ELSE 1

\* Lines 345 and 348: 0 if results.summary() else 1.
exit_code(rs) == IF summary(rs) THEN 0 ELSE 1

\* Lines 321-326.
TestEnvironment ==
    /\ apc = "environment"
    /\ LET r == test_environment(results, adv_environ)
       IN  /\ results' = r.results
           /\ stdout' = IF r.value THEN stdout
                        ELSE Append(stdout, "Environment validation failed")
    /\ apc' = "import"
    /\ UNCHANGED <<adv_environ, adv_client, adv_markets, adv_calls, saved, adv_ret>>

\* Lines 328-332.
TestSdkImport ==
    /\ apc = "import"
    /\ \E outcome \in {"ok", "no_client", "no_filter", "no_order_types"} :
        LET r == test_sdk_import(results, outcome)
        IN  /\ results' = r.results
            /\ IF r.value
               THEN apc' = "client_init" /\ stdout' = stdout /\ adv_ret' = adv_ret
               ELSE /\ stdout' = stdout \o <<"SDK import failed", "Test Summary">>
                    /\ apc' = "returned"
                    /\ adv_ret' = <<1>>
    /\ UNCHANGED <<adv_environ, adv_client, adv_markets, adv_calls, saved>>

\* Line 334. Without CHAIN_ID in the environment int(56) cannot raise.
AdvancedTestClientInitialization ==
    /\ apc = "client_init"
    /\ \E outcome \in {"ok", "raise", "import_error"}
             \cup (IF "CHAIN_ID" \in adv_environ THEN {"bad_chain_id"} ELSE {}) :
        LET r == advanced_test_client_initialization(results, adv_calls, outcome)
        IN  /\ results' = r.results
            /\ adv_calls' = r.calls
            /\ adv_client' = r.value
    /\ apc' = "api_connection"
    /\ UNCHANGED <<adv_environ, adv_markets, stdout, saved, adv_ret>>

\* Line 336.
TestApiConnection ==
    /\ apc = "api_connection"
    /\ \E outcome \in {"list", "empty", "none_list", "403", "errno",
                       "raise_403", "raise", "import_error"} :
        LET r == test_api_connection(adv_client, results, adv_calls, outcome)
        IN  /\ results' = r.results
            /\ adv_calls' = r.calls
            /\ adv_markets' = r.value
    /\ apc' = "market_operations"
    /\ UNCHANGED <<adv_environ, adv_client, stdout, saved, adv_ret>>

\* Line 338.
TestMarketOperations ==
    /\ apc = "market_operations"
    /\ \E outcome \in {"no_market_id", "raise", "no_title", "errno",
                       "no_options", "bad_token", "book_ok", "book_errno",
                       "book_raise"} :
        LET r == test_market_operations(adv_client, adv_markets, results,
                                        adv_calls, outcome)
        IN  /\ results' = r.results
            /\ adv_calls' = r.calls
    /\ apc' = "account_operations"
    /\ UNCHANGED <<adv_environ, adv_client, adv_markets, stdout, saved, adv_ret>>

\* Line 340.
TestAccountOperations ==
    /\ apc = "account_operations"
    /\ \E balances \in {"ok", "errno", "raise"},
          positions \in {"ok", "errno", "raise"} :
        LET r == test_account_operations(adv_client, results, adv_calls,
                                         balances, positions)
        IN  /\ results' = r.results
            /\ adv_calls' = r.calls
    /\ apc' = "quote_tokens"
    /\ UNCHANGED <<adv_environ, adv_client, adv_markets, stdout, saved, adv_ret>>

\* Line 342.
TestQuoteTokens ==
    /\ apc = "quote_tokens"
    /\ \E outcome \in {"ok", "print_raise", "errno", "raise"} :
        LET r == test_quote_tokens(adv_client, results, adv_calls, outcome)
        IN  /\ results' = r.results
            /\ adv_calls' = r.calls
    /\ apc' = "summary"
    /\ UNCHANGED <<adv_environ, adv_client, adv_markets, stdout, saved, adv_ret>>

\* Lines 345-348.
SummaryAndSave ==
    /\ apc = "summary"
    /\ \E outcome \in {"written", "write_error"} :
        LET r == save_results(results, outcome)
        IN  /\ saved' = r.file
            /\ stdout' = stdout \o <<"Test Summary", r.printed>>
    /\ adv_ret' = <<exit_code(results)>>
    /\ apc' = "returned"
    /\ UNCHANGED <<results, adv_environ, adv_client, adv_markets, adv_calls>>

\* The environments in which at most MaxMissing of the required variables
\* are missing or empty.
MaxMissing == 1

AdvancedVarNames ==
    {advanced_required_vars[i].var : i \in DOMAIN advanced_required_vars}

InitAdvanced ==
    /\ apc = "environment"
    /\ \E gone \in SUBSET AdvancedVarNames :
        /\ Cardinality(gone) <= MaxMissing
        /\ adv_environ = AdvancedVarNames \ gone
    /\ results = TestResult
    /\ adv_client = None /\ adv_markets = None
    /\ adv_calls = <<>> /\ stdout = <<>> /\ saved = <<>> /\ adv_ret = <<>>
    /\ CompareIdle /\ SnakeIdle /\ RunnerIdle

NextAdvanced ==
    \/ TestEnvironment /\ UNCHANGED <<compareVars, snakeVars, runnerVars>>
    \/ TestSdkImport /\ UNCHANGED <<compareVars, snakeVars, runnerVars>>
    \/ AdvancedTestClientInitialization /\ UNCHANGED <<compareVars, snakeVars, runnerVars>>
    \/ TestApiConnection /\ UNCHANGED <<compareVars, snakeVars, runnerVars>>
    \/ TestMarketOperations /\ UNCHANGED <<compareVars, snakeVars, runnerVars>>
    \/ TestAccountOperations /\ UNCHANGED <<compareVars, snakeVars, runnerVars>>
    \/ TestQuoteTokens /\ UNCHANGED <<compareVars, snakeVars, runnerVars>>
    \/ SummaryAndSave /\ UNCHANGED <<compareVars, snakeVars, runnerVars>>

SpecAdvanced == InitAdvanced /\ [][NextAdvanced]_vars

\* main runs to its return: no step of it waits for another process.
SpecAdvancedLive == SpecAdvanced /\ WF_vars(NextAdvanced)

-----------------------------------------------------------------------------
(* Properties of camel_to_snake (SpecSnake)                                *)

contract_address == <<"c","o","n","t","r","a","c","t","_","a","d","d","r","e","s","s">>
trading_method == <<"t","r","a","d","i","n","g","_","m","e","t","h","o","d">>

\* What the character at the 1-based position n contributes.
RefPiece(nm, n) ==
    IF IsUpper(nm[n]) /\ n > 1 THEN <<"_">> \o Lower(nm[n]) ELSE Lower(nm[n])

RECURSIVE RefSnake(_, _)
RefSnake(nm, n) == IF n = 0 THEN <<>> ELSE RefSnake(nm, n - 1) \o RefPiece(nm, n)

Count(c, s) == Cardinality({i \in DOMAIN s : s[i] = c})
UpperAfterFirst(nm) == Cardinality({i \in DOMAIN nm : i > 1 /\ IsUpper(nm[i])})

\* C2: camel_to_snake(name) is the reference walk of name: "_" and the
\* lower-cased character for an upper-case character after the first, the
\* lower-cased character otherwise; one underscore is inserted per such
\* upper-case character, an upper-case first character gets no leading
\* underscore, and contractAddress, tradingMethod give contract_address,
\* trading_method.
C2_SnakeIsReferenceWalk ==
    returned # <<>> =>
        /\ returned[1] = RefSnake(name, Len(name))
        /\ Count("_", returned[1]) = Count("_", name) + UpperAfterFirst(name)
        /\ (name # <<>> /\ IsUpper(name[1])) =>
               SubSeq(returned[1], 1, Len(Lower(name[1]))) = Lower(name[1])
        /\ name = contractAddress => returned[1] = contract_address
        /\ name = tradingMethod => returned[1] = trading_method

C2_Witness == returned = <<contract_address>> /\ name = contractAddress

NoUpper(s) == \A i \in DOMAIN s : ~IsUpper(s[i])
OwnLower(s) == \A i \in DOMAIN s : Lower(s[i]) = <<s[i]>>

\* C5 as stated: a str without upper-case characters is returned unchanged.
C5_NoUpperUnchanged ==
    (returned # <<>> /\ NoUpper(name)) => returned[1] = name

\* C5 as amended: a str without upper-case characters, each of whose
\* characters is its own lower-case form, is returned unchanged.
C5_NoUpperOwnLowerUnchanged ==
    (returned # <<>> /\ NoUpper(name) /\ OwnLower(name)) => returned[1] = name

C5_Witness == name = <<"a", "_", "1">> /\ returned = << <<"a", "_", "1">> >>

-----------------------------------------------------------------------------
(* Properties of the passes over `first` (Spec, SpecAll)                   *)

Unmatched == UnmatchedOf(Globals)
Mismatched == MismatchedOf(Globals)
Matched == MatchedOf(Globals)

aB == <<"a", "B">>
a_b == <<"a", "_", "b">>
hexUpper == StrVal(<<"0", "x", "A", "B", "C">>)
hexLower == StrVal(<<"0", "x", "a", "b", "c">>)
digits1708 == StrVal(<<"1", "7", "0", "8">>)
int1708 == IntVal(1708)

\* C1: at the end of the script the unmatched, mismatched and matched keys
\* are pairwise disjoint, their union is the key set of `first`, and every
\* key of `first` is reported once.
C1_Partition ==
    pc = "done" =>
        /\ Unmatched \cap Mismatched = {}
        /\ Unmatched \cap Matched = {}
        /\ Mismatched \cap Matched = {}
        /\ Unmatched \cup Mismatched \cup Matched = KeySet(first)
        /\ Len(marks) = Len(first)
        /\ Cardinality(Unmatched) + Len(differences) + Len(same_fields) = Len(first)

C1_Witness ==
    /\ pc = "done"
    /\ Unmatched # {} /\ Mismatched # {} /\ Matched # {}
    /\ KeySet(second) \ {camel_to_snake(k) : k \in KeySet(first)} # {}

\* The pairs of FirstValues and SecondValues that are equal as lower-cased strings.
EqualPairs == { <<hexUpper, hexLower>>, <<digits1708, int1708>> }

\* C3: a key of `first` whose snake_case name is a key of `second` is
\* matched if str(value).lower() agrees on both sides and mismatched
\* otherwise; "0xABC" agrees with "0xabc" and "1708" with 1708.
C3_ValueClassification ==
    pc = "done" =>
        \A i \in DOMAIN first :
            LET k == first[i][1]
                snake_key == camel_to_snake(k)
            IN  In(snake_key, second) =>
                    LET a == first[i][2]
                        b == GetItem(second, snake_key)
                        eq == StrLower(PyStr(a)) = StrLower(PyStr(b))
                    IN  /\ k \in Matched <=> eq
                        /\ k \in Mismatched <=> ~eq
                        /\ eq <=> <<a, b>> \in EqualPairs

C3_Witness ==
    /\ pc = "done"
    /\ \E i, j \in DOMAIN first :
        /\ first[i][1] \in Matched /\ first[i][2] = hexUpper
        /\ GetItem(second, camel_to_snake(first[i][1])) = hexLower
        /\ first[j][1] \in Matched /\ first[j][2] = digits1708
        /\ GetItem(second, camel_to_snake(first[j][1])) = int1708
    /\ Mismatched # {}

\* C4: a key of `first` is unmatched exactly when its snake_case name is no
\* key of `second` (whether or not the key itself is one), and an unmatched
\* key is in neither of the compared sets.
C4_UnmatchedIffNoCounterpart ==
    pc = "done" =>
        \A k \in KeySet(first) :
            /\ k \in Unmatched <=> ~In(camel_to_snake(k), second)
            /\ k \in Unmatched => k \notin Mismatched \cup Matched

C4_Witness ==
    /\ pc = "done"
    /\ In(aB, first) /\ In(aB, second) /\ ~In(a_b, second)
    /\ aB \in Unmatched

\* The keys of the two runs are reported in the same sets.
SameSet(g, k, snake_key) ==
    /\ k \in Matched <=> snake_key \in MatchedOf(g)
    /\ k \in Mismatched <=> snake_key \in MismatchedOf(g)
    /\ k \in Unmatched <=> snake_key \in UnmatchedOf(g)

\* C6 as stated: for a key k of `first` without upper-case characters whose
\* snake_case name is a key of `second`, the run with the mappings swapped
\* reports that name in the set this run reports k in; the sets differ only
\* for a key that camel_to_snake changes.
C6_NoUpperSameSetSwapped ==
    pc = "done" =>
        LET g == RunScript(second, first)
        IN  \A k \in KeySet(first) :
                LET snake_key == camel_to_snake(k)
                IN  In(snake_key, second) =>
                        /\ NoUpper(k) => SameSet(g, k, snake_key)
                        /\ ~SameSet(g, k, snake_key) => k # snake_key

\* C6 as amended: for a key k of `first` that camel_to_snake leaves
\* unchanged and that is a key of `second`, the run with the mappings
\* swapped reports it in the set this run reports it in; the sets differ
\* only for a key that camel_to_snake changes.
C6_UnchangedKeySameSetSwapped ==
    pc = "done" =>
        LET g == RunScript(second, first)
        IN  \A k \in KeySet(first) :
                LET snake_key == camel_to_snake(k)
                IN  In(snake_key, second) =>
                        /\ snake_key = k => SameSet(g, k, snake_key)
                        /\ ~SameSet(g, k, snake_key) => k # snake_key

C6_Witness ==
    /\ pc = "done"
    /\ a_b \in Matched /\ a_b \in MatchedOf(RunScript(second, first))
    /\ aB \in Mismatched

\* C7: every entry of differences holds a key of `first`, its snake_case
\* name, and the values stored under them in `first` and `second`.
C7_RawValuesKept ==
    \A i \in DOMAIN differences :
        LET d == differences[i]
        IN  /\ In(d[1], first)
            /\ d[2] = camel_to_snake(d[1])
            /\ In(d[2], second)
            /\ d[3] = GetItem(first, d[1])
            /\ d[4] = GetItem(second, d[2])

C7_Witness ==
    \E i, j \in DOMAIN differences :
        /\ differences[i][3] = hexUpper /\ differences[i][4] = int1708
        /\ differences[j][3] = digits1708 /\ differences[j][4] = hexLower

IsStr(x) == x \in Seq(Range(CharOrder))

C9_InputsUnchanged == [][first' = first /\ second' = second]_vars

C9_Witness ==
    /\ pc = "done"
    /\ marks # <<>> /\ differences # <<>> /\ Len(same_fields) > 1

-----------------------------------------------------------------------------
(* Properties of main() of test_sdk.py (SpecRunner)                        *)

Called(m) == m \in Range(calls)
Before(m, n) ==
    \E i, j \in DOMAIN calls : i < j /\ calls[i] = m /\ calls[j] = n
Methods == {"get_markets", "get_market", "get_orderbook", "get_my_balances",
            "get_my_positions"}
Returned1 == rpc = "returned" => ret = <<1>>

\* C10: with a required variable missing, the import failed or no client
\* constructed, no SDK method is called and main returns 1 (nor is Client
\* called in the first two cases); get_market is called only after
\* get_markets returned a non-empty list, get_orderbook only after
\* get_market returned a market with options; after a failed get_markets
\* the balances and positions are not fetched and main returns 1.
C10_PrerequisitesFirst ==
    /\ (rpc # "check_env" /\ environ # required_vars) =>
           /\ calls = <<>> /\ client = None /\ ret = <<1>>
    /\ import_ok = "False" =>
           /\ calls = <<>> /\ client = None /\ ret = <<1>>
    /\ client = None =>
           /\ \A m \in Methods : ~Called(m)
           /\ Returned1
    /\ Called("get_market") =>
           /\ markets = "[market]"
           /\ Before("get_markets", "get_market")
    /\ Called("get_orderbook") =>
           /\ market_detail = "market_with_options"
           /\ Before("get_market", "get_orderbook")
    /\ (client # None /\ markets = None /\ rpc # "get_markets") =>
           /\ ~Called("get_my_balances") /\ ~Called("get_my_positions")
           /\ ret = <<1>>

C10_Witness ==
    /\ calls = <<"Client", "get_markets", "get_market", "get_orderbook",
                 "get_my_balances", "get_my_positions">>
    /\ ret = <<0>>

-----------------------------------------------------------------------------
(* Properties of camel_to_snake applied twice (SpecSnake)                  *)

fee_rate_bps == <<"f","e","e","_","r","a","t","e","_","b","p","s">>

\* Every upper-case character of s has a lower-case form of one character
\* that is not upper-case.
PlainUpper(s) ==
    \A i \in DOMAIN s :
        IsUpper(s[i]) => Len(Lower(s[i])) = 1 /\ ~IsUpper(Lower(s[i])[1])

\* C14 as stated: for every str, camel_to_snake(name) holds no upper-case
\* character, a second application returns it unchanged, and its length is
\* that of name plus the number of upper-case characters after the first.
C14_IdempotentAndLength ==
    Len(returned) = 2 =>
        /\ NoUpper(returned[1])
        /\ returned[2] = returned[1]
        /\ Len(returned[1]) = Len(name) + UpperAfterFirst(name)

\* C14 as amended: the same for every str whose upper-case characters each
\* have a one-character lower-case form that is not upper-case.
C14_PlainUpperIdempotentAndLength ==
    (Len(returned) = 2 /\ PlainUpper(name)) =>
        /\ NoUpper(returned[1])
        /\ returned[2] = returned[1]
        /\ Len(returned[1]) = Len(name) + UpperAfterFirst(name)

C14_Witness == name = feeRateBps /\ returned = <<fee_rate_bps, fee_rate_bps>>

-----------------------------------------------------------------------------
(* Properties of TestResult (SpecTestResult)                               *)

CountStatus(self, status) ==
    Cardinality({i \in DOMAIN self.results : self.results[i].status = status})

Counters ==
    /\ results.passed + results.failed + results.skipped = Len(results.results)
    /\ results.passed = CountStatus(results, "PASS")
    /\ results.failed = CountStatus(results, "FAIL")
    /\ results.skipped = CountStatus(results, "SKIP")

\* The counter that belongs to a status.
CounterOf(self, status) ==
    IF status = "PASS" THEN self.passed
    ELSE IF status = "FAIL" THEN self.failed
    ELSE self.skipped

OneCall ==
    /\ Len(results'.results) = Len(results.results) + 1
    /\ SubSeq(results'.results, 1, Len(results.results)) = results.results
    /\ LET status == results'.results[Len(results'.results)].status
       IN  /\ status \in {"PASS", "FAIL", "SKIP"}
           /\ \A st \in {"PASS", "FAIL", "SKIP"} :
                CounterOf(results', st) =
                    CounterOf(results, st) + (IF st = status THEN 1 ELSE 0)

\* C11: after any sequence of add_pass, add_fail and add_skip calls the three
\* counters sum to the number of entries and each equals the number of
\* entries of its status; each call raises exactly one counter by one, appends
\* exactly one entry at the end and leaves the earlier entries and the other
\* two counters as they were.
C11_CountersMatchEntries == []Counters /\ [][OneCall]_vars

C11_Witness ==
    /\ results.passed = 1 /\ results.failed = 1 /\ results.skipped = 1
    /\ Len(results.results) = 3
    /\ results.results[3].status = "SKIP"

-----------------------------------------------------------------------------
(* Properties of the advanced runner (SpecAdvanced)                        *)

Recorded(status) == CountStatus(results, status) > 0

\* C12: main of test_sdk_advanced.py returns 0 if and only if no FAIL entry
\* was recorded during the run; SKIP entries alone leave the exit code 0.
C12_ExitZeroIffNoFail ==
    apc = "returned" => (adv_ret = <<0>> <=> ~Recorded("FAIL"))

C12_Witness ==
    /\ apc = "returned" /\ adv_ret = <<0>>
    /\ Recorded("SKIP") /\ ~Recorded("FAIL")

Skip(test_name, reason) == [test |-> test_name, status |-> "SKIP", reason |-> reason]

FiveSkips == <<
    Skip("API Connection", "Client not initialized"),
    Skip("Market Detail", "No markets available"),
    Skip("Market Orderbook", "No markets available"),
    Skip("Account Operations", "Client not initialized"),
    Skip("Get Quote Tokens", "Client not initialized") >>

ClientMethods == {"get_markets", "get_market", "get_orderbook",
                  "get_my_balances", "get_my_positions", "get_quote_tokens"}

\* Entry n is the FAIL entry of test_client_initialization.
ClientInitializationAt(n) ==
    /\ results.results[n].test = "Client Initialization"
    /\ results.results[n].status = "FAIL"

\* main has called test_client_initialization and it returned None.
ClientIsNone ==
    /\ adv_client = None
    /\ \E n \in DOMAIN results.results : ClientInitializationAt(n)

\* The entries recorded after the first n.
After(n) == SubSeq(results.results, n + 1, Len(results.results))

\* How many of the five entries are there when main is at a position.
SkipsAt(position) ==
    IF position = "api_connection" THEN 0
    ELSE IF position = "market_operations" THEN 1
    ELSE IF position = "account_operations" THEN 3
    ELSE IF position = "quote_tokens" THEN 4
    ELSE 5

SkipsOnly ==
    \A n \in DOMAIN results.results :
        ClientInitializationAt(n) =>
            /\ adv_client = None
            /\ After(n) = SubSeq(FiveSkips, 1, SkipsAt(apc))
            /\ Range(adv_calls) \cap ClientMethods = {}

SummaryAndSaveDone ==
    /\ apc = "returned"
    /\ Len(stdout) >= 2
    /\ stdout[Len(stdout) - 1] = "Test Summary"
    /\ stdout[Len(stdout)] \in {"Results saved", "Failed to save results"}
    /\ stdout[Len(stdout)] = "Results saved" => saved = <<output(results)>>

====
